---- MODULE Spec2Model ----
(***************************************************************************)
(* Coordinate reconstruction (transformer/Structure.py) and angle          *)
(* acquisition (scripts/data_aq.py) of protein-transformer.                *)
(*                                                                         *)
(* Numbers.  Lengths are in units of 0.0002 Angstrom: a bond length is     *)
(* kept in thousandths (1442 for 1.442) and sines and cosines in fifths,   *)
(* so the product of a length and a sine is exact.  An angle is the pair   *)
(* <<5 cos, 5 sin>>; the angles used are those whose sine and cosine are   *)
(* exact in fifths.                                                        *)
(***************************************************************************)
EXTENDS Integers, Sequences, FiniteSets, TLC

VARIABLES
    angles,      \* generate_coords: the angle table, row -> column -> angle
    pad_loc,     \* generate_coords: number of real residues
    input_seq,   \* generate_coords: residue type of every row
    pc,          \* generate_coords: position in the function body
    i,           \* generate_coords: loop variable of line 12
    bb_arr,      \* backbone coordinate list
    sc_arr,      \* side-chain coordinate list
    sc_owner,    \* history: residue index each entry of sc_arr was emitted for
    calls,       \* history: the nerf calls of extend_backbone, in order
    reads,       \* history: the cells <<row, column>> of the angle table read
    trace,       \* history: the steps generate_coords has taken
    result,      \* the returned stack of coordinates
    chain,       \* get_angles_from_chain: the residues of the chain
    nan_phi,     \* get_angles_from_chain: the last residue's phi measures NaN
    aq_pc,       \* get_angles_from_chain: position in the function body
    res_id,      \* get_angles_from_chain: loop index of line 206
    prev,        \* get_angles_from_chain: expected residue number
    prev_res,    \* get_angles_from_chain: index of the previous residue, -1 = None
    dihedrals,   \* get_angles_from_chain: rows computed so far
    aq_result,   \* get_angles_from_chain: what the call returned
    pdb_hv,           \* work: the chains of the parsed structure, in order
    single_chain_only, \* work: args.single_chain_only
    w_pc,             \* work: position in the function body
    w_idx,            \* work: position of the loop of line 253, from 1
    prevchainseq,     \* work: sequence of the first chain, NoneSeq = None
    pdb_dihedrals,    \* work: angle tables collected
    pdb_sequences,    \* work: sequences collected
    ids,              \* work: chain ids collected
    parsed,           \* history: positions of the chains handed to get_angles_from_chain
    w_result          \* work: what the call returned

gvars == <<angles, pad_loc, input_seq, pc, i, bb_arr, sc_arr, sc_owner, calls,
           reads, trace, result>>
avars == <<chain, nan_phi, aq_pc, res_id, prev, prev_res, dihedrals, aq_result>>
wvars == <<pdb_hv, single_chain_only, w_pc, w_idx, prevchainseq, pdb_dihedrals,
           pdb_sequences, ids, parsed, w_result>>
vars == <<angles, pad_loc, input_seq, pc, i, bb_arr, sc_arr, sc_owner, calls,
          reads, trace, result, chain, nan_phi, aq_pc, res_id, prev, prev_res,
          dihedrals, aq_result, pdb_hv, single_chain_only, w_pc, w_idx,
          prevchainseq, pdb_dihedrals, pdb_sequences, ids, parsed, w_result>>

----------------------------------------------------------------------------
(* Bounds of the model. *)

\* longest angle table / residue sequence handed to generate_coords
MaxLen == 3
\* number of different angle tables tried
NumTables == 2
\* longest chain handed to get_angles_from_chain
MaxChain == 2
\* largest number of chains of a structure handed to work
MaxChains == 3

----------------------------------------------------------------------------
(* Angles and vectors. *)

\* a length in thousandths of an Angstrom, as a coordinate
Scaled(l) == 5 * l

AngleList == << <<3, 4>>, <<0, 5>>, <<-3, 4>>, <<4, 3>>, <<-4, 3>>, <<-5, 0>>, <<5, 0>> >>

Cos(a) == a[1]
Sin(a) == a[2]

\* np.pi - a
PiMinus(a) == <<-a[1], a[2]>>

VecAdd(u, v) == <<u[1] + v[1], u[2] + v[2], u[3] + v[3]>>
VecSub(u, v) == <<u[1] - v[1], u[2] - v[2], u[3] - v[3]>>
Norm2(u) == u[1] * u[1] + u[2] * u[2] + u[3] * u[3]

\* torch.zeros(3)
Zeros3 == <<0, 0, 0>>

\* the dict of lines 33 and 56, in thousandths of an Angstrom
bondlens == [n_ca |-> 1442, ca_c |-> 1498, c_n |-> 1379]

\* Width of an angle row: phi, psi, omega, ncac, cacn, cnca, chi1..chi5.
NUM_PREDICTED_ANGLES == 11

\* The geometry templates: residue type -> the ordered side-chain atom names
\* predicted for it.  A type that is not in its domain has no template.
SC_DATA ==
    [GLY |-> [predicted |-> << >>],
     ALA |-> [predicted |-> <<"CB">>],
     LYS |-> [predicted |-> <<"CB", "CG", "CD", "CE", "NZ">>]]

TemplateTypes == DOMAIN SC_DATA

\* residue types a caller may hand over; "XAA" has no template
SeqTypes == {"GLY", "ALA", "XAA"}

----------------------------------------------------------------------------
(* Structure.py *)

\* nerf(a, b, c, l, theta, chi): the point placed from the three points a, b, c
\* with bond length l, bond angle theta and dihedral chi.  The placed point is
\* kept as the term of its arguments: two placements agree exactly when their
\* arguments do.
nerf(a, b, c, l, theta, chi) == <<"nerf", a, b, c, l, theta, chi>>

\* init_backbone(angles, device): the first three backbone points.
init_backbone(ang) ==
    LET a1 == Zeros3
        a2 == VecAdd(a1, <<Scaled(bondlens.n_ca), 0, 0>>)
        a3x == Cos(PiMinus(ang[0][3])) * bondlens.ca_c
        a3y == Sin(PiMinus(ang[0][3])) * bondlens.ca_c
        a3 == <<a3x, a3y, 0>>
    IN  <<a1, a2, a3>>

\* init_sidechain(angles, backbone)
init_sidechain(ang, backbone) == <<Zeros3>>

\* bb_params with the dihedral of N taken from the residue's own row
bb_params_psi_current(j, k, ang) ==
    IF j = 0 THEN
        [t |-> ang[k][4], b |-> bondlens.c_n, dihedral |-> ang[k][1],
         tAt |-> <<k, 4>>, dAt |-> <<k, 1>>]
    ELSE IF j = 1 THEN
        [t |-> ang[k][5], b |-> bondlens.n_ca, dihedral |-> ang[k - 1][2],
         tAt |-> <<k, 5>>, dAt |-> <<k - 1, 2>>]
    ELSE
        [t |-> ang[k][3], b |-> bondlens.ca_c, dihedral |-> ang[k][0],
         tAt |-> <<k, 3>>, dAt |-> <<k, 0>>]

\* The branch of lines 59-73 for loop index j: the bond angle t, the bond
\* length b and the dihedral, with the cells of the table they are read from.
bb_params(j, k, ang) ==
    IF j = 0 THEN
        [t |-> ang[k][4], b |-> bondlens.c_n, dihedral |-> ang[k - 1][1],
         tAt |-> <<k, 4>>, dAt |-> <<k - 1, 1>>]
    ELSE IF j = 1 THEN
        [t |-> ang[k][5], b |-> bondlens.n_ca, dihedral |-> ang[k - 1][2],
         tAt |-> <<k, 5>>, dAt |-> <<k - 1, 2>>]
    ELSE
        [t |-> ang[k][3], b |-> bondlens.ca_c, dihedral |-> ang[k][0],
         tAt |-> <<k, 3>>, dAt |-> <<k, 0>>]

\* One pass of the loop body of lines 58-78: the nerf call made for index j.
\* coords is the list handed in; it is not changed inside extend_backbone.
bb_call(j, k, ang, coords) ==
    LET p == bb_params(j, k, ang)
        n == Len(coords)
        p3 == coords[n - 2]
        p2 == coords[n - 1]
        p1 == coords[n]
    IN  [res |-> k, j |-> j, ctx |-> <<p3, p2, p1>>,
         b |-> p.b, t |-> p.t, dihedral |-> p.dihedral,
         tAt |-> p.tAt, dAt |-> p.dAt,
         pt |-> nerf(p3, p2, p1, p.b, p.t, p.dihedral)]

\* extend_backbone(i, angles, coords, device): its three calls, in order.
extend_backbone_calls(k, ang, coords) ==
    [j1 \in 1..3 |-> bb_call(j1 - 1, k, ang, coords)]

\* extend_backbone(i, angles, coords, device): the list bb_pts it returns.
extend_backbone(k, ang, coords) ==
    [j1 \in 1..3 |-> extend_backbone_calls(k, ang, coords)[j1].pt]

\* list_extend that puts the new points in front
list_extend_front(lst, pts) == pts \o lst

\* list += list
list_extend(lst, pts) == lst \o pts

\* range_next with a step of 2
range_next_skip(k) == k + 2

\* the next value of "for i in range(1, pad_loc)"
range_next(k) == k + 1

\* Sidechains.extend_sidechain(i, angles, bb_arr, sc_arr, input_seq): one point
\* per predicted atom of the residue's template.
extend_sidechain(k, ang, bb, sc, seq) ==
    LET names == SC_DATA[seq[k]].predicted
    IN  [n \in 1..Len(names) |-> <<"sc", k, n, names[n]>>]

\* the angle cells extend_sidechain reads: one chi per predicted atom
sidechain_reads(k, seq) ==
    {<<k, 5 + n>> : n \in 1..Len(SC_DATA[seq[k]].predicted)}

----------------------------------------------------------------------------
(* data_aq.py *)

\* what np.isnan recognises
NaN == -1

\* residue names that count as standard amino acids; "XAA" is a standard
\* residue without a template, "MSE" a non-standard one
StdNames == {"GLY", "ALA", "LYS", "XAA"}
ChainNames == StdNames \cup {"MSE"}

\* the atoms a residue of a type has when the structure file is complete
FullAtoms(name) ==
    {"N", "CA", "C"} \cup
    (IF name \in TemplateTypes
     THEN {SC_DATA[name].predicted[n] : n \in 1..Len(SC_DATA[name].predicted)}
     ELSE {})

\* residue.isstdaa
isstdaa(res) == res.name \in StdNames

\* residue.select("name " + an): the atom, or None when the residue lacks it
select(res, an) == IF an \in FullAtoms(res.name) \ res.missing THEN an ELSE "None"

\* the angle measured over four atoms, a nonzero number that names them
AtomCode == [FC |-> 9, C |-> 1, N |-> 2, CA |-> 3, CB |-> 4, CG |-> 5, CD |-> 6,
             CE |-> 7, NZ |-> 8]

\* getDihedral(coords1, coords2, coords3, coords4, radian=True)
getDihedral(a, b, c, d) ==
    1000 * AtomCode[a] + 100 * AtomCode[b] + 10 * AtomCode[c] + AtomCode[d]

\* compute_single_dihedral(atoms)
compute_single_dihedral(atoms) == getDihedral(atoms[1], atoms[2], atoms[3], atoms[4])

\* measure_phi_psi_omega(residue): an angle that needs a missing neighbour is
\* replaced by outofboundchar = 0
measure_phi_psi_omega(ch, rid, nanphi) ==
    LET last == rid = Len(ch) - 1
        phi == IF nanphi /\ last THEN NaN ELSE IF rid = 0 THEN 0 ELSE 10 * (rid + 1) + 1
        psi == IF last THEN 0 ELSE 10 * (rid + 1) + 2
        omega == IF last THEN 0 ELSE 10 * (rid + 1) + 3
    IN  <<phi, psi, omega>>

\* measure_bond_angles(residue, res_idx, all_res)
measure_bond_angles(ch, rid) ==
    IF rid = Len(ch) - 1 THEN <<0, 0, 0>>
    ELSE <<10 * (rid + 1) + 4, 10 * (rid + 1) + 5, 10 * (rid + 1) + 6>>

\* check_standard_continuous that does not look at the residue number
check_standard_continuous_nogap(res, prev_res_num) ==
    IF ~isstdaa(res) THEN FALSE
    ELSE TRUE

\* check_standard_continuous(residue, prev_res_num)
check_standard_continuous(res, prev_res_num) ==
    IF ~isstdaa(res) THEN FALSE
    ELSE IF res.num # prev_res_num THEN FALSE
    ELSE TRUE

\* lines 215-221: the atom names of a residue; the template lookup raises
\* KeyError for a name without a template (has_template is tested before)
atom_names_of(res) ==
    IF res.name \in {"GLY", "PRO"} THEN SC_DATA[res.name].predicted
    ELSE <<"N", "CA">> \o SC_DATA[res.name].predicted

\* n * [pad_char]: a list of n pads, empty when n is not positive
Pads(n, pad_char) == [q \in 1..n |-> pad_char]

\* compute_all_res_dihedrals that pads without counting the dihedrals computed
compute_all_res_dihedrals_fullpad(atom_names, residue, has_prev, prev_residue, backbone, bondangles) ==
    LET own == [n \in 1..Len(atom_names) |-> select(residue, atom_names[n])]
        atoms == IF has_prev THEN <<select(prev_residue, "C")>> \o own ELSE own
        first == IF has_prev THEN << >>
                 ELSE <<getDihedral("FC", atoms[1], atoms[2], atoms[3])>>
        rest == [n \in 1..(Len(atoms) - 3) |-> compute_single_dihedral(SubSeq(atoms, n, n + 3))]
        res_dihedrals == IF Len(atom_names) > 0 THEN first \o rest ELSE << >>
    IN  IF Len(atom_names) > 0 /\ (\E n \in 1..Len(atoms) : atoms[n] = "None")
        THEN [kind |-> "None", row |-> << >>]
        ELSE IF Len(atom_names) > 0 /\ ~has_prev /\ Len(atoms) < 3
             THEN [kind |-> "raise", row |-> << >>]
        ELSE [kind |-> "row",
              row |-> backbone \o bondangles \o res_dihedrals
                        \o Pads(NUM_PREDICTED_ANGLES - 6, 0)]

\* compute_all_res_dihedrals(atom_names, residue, prev_residue, backbone,
\* bondangles, pad_char=0).  prev_residue is a residue, or "None" as a string
\* for the first of the chain.  The outcome is a row, None, or an exception.
compute_all_res_dihedrals(atom_names, residue, has_prev, prev_residue, backbone, bondangles) ==
    LET pad_char == 0
        own == [n \in 1..Len(atom_names) |-> select(residue, atom_names[n])]
        atoms == IF has_prev THEN <<select(prev_residue, "C")>> \o own ELSE own
        none_in == \E n \in 1..Len(atoms) : atoms[n] = "None"
        first == IF has_prev THEN << >>
                 ELSE <<getDihedral("FC", atoms[1], atoms[2], atoms[3])>>
        rest == [n \in 1..(Len(atoms) - 3) |-> compute_single_dihedral(SubSeq(atoms, n, n + 3))]
        res_dihedrals == IF Len(atom_names) > 0 THEN first \o rest ELSE << >>
        row == backbone \o bondangles \o res_dihedrals
                 \o Pads(NUM_PREDICTED_ANGLES - 6 - Len(res_dihedrals), pad_char)
    IN  IF Len(atom_names) > 0 /\ none_in THEN [kind |-> "None", row |-> << >>]
        ELSE IF Len(atom_names) > 0 /\ ~has_prev /\ Len(atoms) < 3
             THEN [kind |-> "raise", row |-> << >>]
        ELSE [kind |-> "row", row |-> row]

----------------------------------------------------------------------------
(* generate_coords(angles, pad_loc, input_seq, device), Structure.py 6-21 *)

\* The angle tables tried: every cell holds one of the angles of AngleList.
AngleTable(k, nrows) ==
    [r \in 0..(nrows - 1) |->
        [c \in 0..(NUM_PREDICTED_ANGLES - 1) |->
            AngleList[((r * NUM_PREDICTED_ANGLES + c + k) % Len(AngleList)) + 1]]]

NumRows == Cardinality(DOMAIN angles)

\* prevchainseq = None
NoneSeq == <<"None">>

WIdle ==
    /\ pdb_hv = << >>
    /\ single_chain_only = FALSE
    /\ w_pc = "idle"
    /\ w_idx = 0
    /\ prevchainseq = NoneSeq
    /\ pdb_dihedrals = << >>
    /\ pdb_sequences = << >>
    /\ ids = << >>
    /\ parsed = {}
    /\ w_result = [kind |-> "pending", dihedrals |-> << >>, sequences |-> << >>,
                   ids |-> << >>]

AIdle ==
    /\ chain = << >>
    /\ nan_phi = FALSE
    /\ aq_pc = "idle"
    /\ res_id = 0
    /\ prev = 0
    /\ prev_res = -1
    /\ dihedrals = << >>
    /\ aq_result = [kind |-> "pending", table |-> << >>, sequence |-> << >>]

GInit ==
    /\ pad_loc \in 0..MaxLen
    /\ \E nrows \in pad_loc..MaxLen :
          /\ \E k \in 0..(NumTables - 1) : angles = AngleTable(k, nrows)
          /\ input_seq \in [0..(nrows - 1) -> SeqTypes]
    /\ pc = "INITIAL"
    /\ i = 0
    /\ bb_arr = << >>
    /\ sc_arr = << >>
    /\ sc_owner = << >>
    /\ calls = << >>
    /\ reads = {}
    /\ trace = << >>
    /\ result = << >>

\* line 9
InitBackbone ==
    /\ pc = "INITIAL"
    /\ NumRows > 0
    /\ bb_arr' = init_backbone(angles)
    /\ reads' = reads \cup {<<0, 3>>}
    /\ trace' = Append(trace, <<"seed", 0>>)
    /\ pc' = "BACKBONE_SEEDED"
    /\ UNCHANGED <<angles, pad_loc, input_seq, i, sc_arr, sc_owner, calls, result>>
    /\ UNCHANGED <<avars, wvars>>

\* line 9 on a table without rows: angles[0, 3] raises IndexError
InitBackboneIndexError ==
    /\ pc = "INITIAL"
    /\ NumRows = 0
    /\ pc' = "ERROR"
    /\ UNCHANGED <<angles, pad_loc, input_seq, i, bb_arr, sc_arr, sc_owner, calls,
                   reads, trace, result>>
    /\ UNCHANGED <<avars, wvars>>

\* line 10, then the first test of the loop of line 12
InitSidechain ==
    /\ pc = "BACKBONE_SEEDED"
    /\ sc_arr' = init_sidechain(angles, bb_arr)
    /\ sc_owner' = <<0>>
    /\ i' = 1
    /\ pc' = IF 1 < pad_loc THEN "EXTEND_BB" ELSE "RETURN"
    /\ UNCHANGED <<angles, pad_loc, input_seq, bb_arr, calls, reads, trace, result>>
    /\ UNCHANGED <<avars, wvars>>

\* lines 13-14
ExtendBackbone ==
    /\ pc = "EXTEND_BB"
    /\ LET cs == extend_backbone_calls(i, angles, bb_arr)
       IN  /\ bb_arr' = list_extend(bb_arr, extend_backbone(i, angles, bb_arr))
           /\ calls' = calls \o cs
           /\ reads' = reads \cup {cs[j1].tAt : j1 \in 1..3} \cup {cs[j1].dAt : j1 \in 1..3}
    /\ trace' = Append(trace, <<"bb", i>>)
    /\ pc' = "EXTEND_SC"
    /\ UNCHANGED <<angles, pad_loc, input_seq, i, sc_arr, sc_owner, result>>
    /\ UNCHANGED <<avars, wvars>>

\* lines 17-18, then the next test of the loop of line 12
ExtendSidechain ==
    /\ pc = "EXTEND_SC"
    /\ input_seq[i] \in TemplateTypes
    /\ LET sc_pts == extend_sidechain(i, angles, bb_arr, sc_arr, input_seq)
       IN  /\ sc_arr' = list_extend(sc_arr, sc_pts)
           /\ sc_owner' = sc_owner \o [n \in 1..Len(sc_pts) |-> i]
    /\ reads' = reads \cup sidechain_reads(i, input_seq)
    /\ trace' = Append(trace, <<"sc", i>>)
    /\ i' = range_next(i)
    /\ pc' = IF range_next(i) < pad_loc THEN "EXTEND_BB" ELSE "RETURN"
    /\ UNCHANGED <<angles, pad_loc, input_seq, bb_arr, calls, result>>
    /\ UNCHANGED <<avars, wvars>>

\* line 17 for a residue type without a template: the lookup raises
ExtendSidechainKeyError ==
    /\ pc = "EXTEND_SC"
    /\ input_seq[i] \notin TemplateTypes
    /\ pc' = "ERROR"
    /\ UNCHANGED <<angles, pad_loc, input_seq, i, bb_arr, sc_arr, sc_owner, calls,
                   reads, trace, result>>
    /\ UNCHANGED <<avars, wvars>>

\* line 21
Return ==
    /\ pc = "RETURN"
    /\ result' = bb_arr \o sc_arr
    /\ pc' = "DONE"
    /\ UNCHANGED <<angles, pad_loc, input_seq, i, bb_arr, sc_arr, sc_owner, calls,
                   reads, trace>>
    /\ UNCHANGED <<avars, wvars>>

Init == GInit /\ AIdle /\ WIdle

Next ==
    \/ InitBackbone
    \/ InitBackboneIndexError
    \/ InitSidechain
    \/ ExtendBackbone
    \/ ExtendSidechain
    \/ ExtendSidechainKeyError
    \/ Return

Spec == Init /\ [][Next]_vars

----------------------------------------------------------------------------
(* get_angles_from_chain(chain, pdb_id), data_aq.py 186-234 *)

MissingSets == {{}, {"CB"}, {"C"}}

RECURSIVE NumAt(_, _)
\* residue number of the q-th residue: the first is 1, each next one is its
\* predecessor's number plus the gap before it
NumAt(gaps, q) == IF q = 1 THEN 1 ELSE NumAt(gaps, q - 1) + gaps[q]

GIdle ==
    /\ angles = << >>
    /\ pad_loc = 0
    /\ input_seq = << >>
    /\ pc = "idle"
    /\ i = 0
    /\ bb_arr = << >>
    /\ sc_arr = << >>
    /\ sc_owner = << >>
    /\ calls = << >>
    /\ reads = {}
    /\ trace = << >>
    /\ result = << >>

AInit ==
    /\ \E n \in 1..MaxChain :
       \E names \in [1..n -> ChainNames] :
       \E gaps \in [1..n -> {1, 2}] :
       \E miss \in [1..n -> MissingSets] :
          /\ gaps[1] = 1
          /\ chain = [q \in 1..n |->
                        [name |-> names[q], num |-> NumAt(gaps, q), missing |-> miss[q]]]
    /\ nan_phi \in BOOLEAN
    /\ aq_pc = "start"
    /\ res_id = 0
    /\ prev = 0
    /\ prev_res = -1
    /\ dihedrals = << >>
    /\ aq_result = [kind |-> "pending", table |-> << >>, sequence |-> << >>]

\* chain.nonstdaa
nonstdaa(ch) == \E q \in 1..Len(ch) : ~isstdaa(ch[q])

\* chain.getSequence()
getSequence(ch) == [q \in 1..Len(ch) |-> ch[q].name]

AqReturnNone ==
    /\ aq_result' = [kind |-> "None", table |-> << >>, sequence |-> << >>]
    /\ aq_pc' = "returned"

AqRaise ==
    /\ aq_result' = [kind |-> "raise", table |-> << >>, sequence |-> << >>]
    /\ aq_pc' = "raised"

\* lines 194-196: a chain with a non-standard residue is ignored
AqStartNonStd ==
    /\ aq_pc = "start"
    /\ nonstdaa(chain)
    /\ AqReturnNone
    /\ UNCHANGED <<chain, nan_phi, res_id, prev, prev_res, dihedrals>>
    /\ UNCHANGED <<gvars, wvars>>

\* lines 192-205
AqStart ==
    /\ aq_pc = "start"
    /\ ~nonstdaa(chain)
    /\ prev' = chain[1].num
    /\ prev_res' = -1
    /\ res_id' = 0
    /\ dihedrals' = << >>
    /\ aq_pc' = "loop"
    /\ UNCHANGED <<chain, nan_phi, aq_result>>
    /\ UNCHANGED <<gvars, wvars>>

\* lines 207-208: the residue is not standard or not the expected number
AqResidueReject ==
    /\ aq_pc = "loop"
    /\ res_id < Len(chain)
    /\ ~check_standard_continuous(chain[res_id + 1], prev)
    /\ AqReturnNone
    /\ UNCHANGED <<chain, nan_phi, res_id, prev, prev_res, dihedrals>>
    /\ UNCHANGED <<gvars, wvars>>

\* lines 218-221 for a residue name without a template: KeyError
AqResidueKeyError ==
    /\ aq_pc = "loop"
    /\ res_id < Len(chain)
    /\ check_standard_continuous(chain[res_id + 1], prev)
    /\ chain[res_id + 1].name \notin TemplateTypes
    /\ AqRaise
    /\ UNCHANGED <<chain, nan_phi, res_id, prev, prev_res, dihedrals>>
    /\ UNCHANGED <<gvars, wvars>>

\* lines 206-227: one pass of the loop over the residues
AqResidue ==
    /\ aq_pc = "loop"
    /\ res_id < Len(chain)
    /\ check_standard_continuous(chain[res_id + 1], prev)
    /\ chain[res_id + 1].name \in TemplateTypes
    /\ LET res == chain[res_id + 1]
           res_backbone == measure_phi_psi_omega(chain, res_id, nan_phi)
           res_bond_angles == measure_bond_angles(chain, res_id)
           atom_names == atom_names_of(res)
           calculated_dihedrals ==
               compute_all_res_dihedrals(atom_names, res, prev_res # -1,
                   IF prev_res = -1 THEN res ELSE chain[prev_res + 1],
                   res_backbone, res_bond_angles)
       IN  IF calculated_dihedrals.kind = "None"
           THEN AqReturnNone /\ UNCHANGED <<res_id, prev, prev_res, dihedrals>>
           ELSE IF calculated_dihedrals.kind = "raise"
           THEN AqRaise /\ UNCHANGED <<res_id, prev, prev_res, dihedrals>>
           ELSE /\ prev' = res.num + 1
                /\ dihedrals' = Append(dihedrals, calculated_dihedrals.row)
                /\ prev_res' = res_id
                /\ res_id' = res_id + 1
                /\ UNCHANGED <<aq_pc, aq_result>>
    /\ UNCHANGED <<chain, nan_phi>>
    /\ UNCHANGED <<gvars, wvars>>

\* lines 229-234
AqFinish ==
    /\ aq_pc = "loop"
    /\ res_id = Len(chain)
    /\ IF \E q \in 1..Len(dihedrals) : \E n \in 1..Len(dihedrals[q]) : dihedrals[q][n] = NaN
       THEN AqReturnNone
       ELSE /\ aq_result' = [kind |-> "table", table |-> dihedrals,
                             sequence |-> getSequence(chain)]
            /\ aq_pc' = "returned"
    /\ UNCHANGED <<chain, nan_phi, res_id, prev, prev_res, dihedrals>>
    /\ UNCHANGED <<gvars, wvars>>

InitAq == AInit /\ GIdle /\ WIdle

NextAq ==
    \/ AqStartNonStd
    \/ AqStart
    \/ AqResidueReject
    \/ AqResidueKeyError
    \/ AqResidue
    \/ AqFinish

SpecAq == InitAq /\ [][NextAq]_vars

----------------------------------------------------------------------------
(* work(pdb_id), data_aq.py 238-277 *)

Res(name, num, missing) == [name |-> name, num |-> num, missing |-> missing]

\* The chains a parsed structure is made of: accepted chains, chains that
\* get_angles_from_chain refuses (an atom missing, a gap, a non-standard
\* residue) and one it fails on; some share their sequence.
WorkChainPool ==
    { <<Res("ALA", 1, {})>>,
      <<Res("ALA", 1, {"CB"})>>,
      <<Res("GLY", 1, {}), Res("ALA", 2, {})>>,
      <<Res("GLY", 1, {}), Res("ALA", 3, {})>>,
      <<Res("MSE", 1, {})>>,
      <<Res("XAA", 1, {})>> }

WInit ==
    /\ \E n \in 0..MaxChains : pdb_hv \in [1..n -> WorkChainPool]
    /\ single_chain_only \in BOOLEAN
    /\ w_pc = "start"
    /\ w_idx = 0
    /\ prevchainseq = NoneSeq
    /\ pdb_dihedrals = << >>
    /\ pdb_sequences = << >>
    /\ ids = << >>
    /\ parsed = {}
    /\ w_result = [kind |-> "pending", dihedrals |-> << >>, sequences |-> << >>,
                   ids |-> << >>]

WorkReturnNone ==
    /\ w_result' = [kind |-> "None", dihedrals |-> << >>, sequences |-> << >>,
                    ids |-> << >>]
    /\ w_pc' = "returned"

\* lines 248-250: more than one chain where only one is wanted
WorkSingleChainOnly ==
    /\ w_pc = "start"
    /\ single_chain_only /\ Len(pdb_hv) > 1
    /\ WorkReturnNone
    /\ UNCHANGED <<pdb_hv, single_chain_only, w_idx, prevchainseq, pdb_dihedrals,
                   pdb_sequences, ids, parsed>>
    /\ UNCHANGED <<gvars, avars>>

\* lines 239-252
WorkStart ==
    /\ w_pc = "start"
    /\ ~(single_chain_only /\ Len(pdb_hv) > 1)
    /\ prevchainseq' = NoneSeq
    /\ pdb_dihedrals' = << >>
    /\ pdb_sequences' = << >>
    /\ ids' = << >>
    /\ w_idx' = 1
    /\ w_pc' = "loop"
    /\ UNCHANGED <<pdb_hv, single_chain_only, parsed, w_result>>
    /\ UNCHANGED <<gvars, avars>>

\* lines 254-255 and 262-263: the first chain met sets prevchainseq and is
\* handed to get_angles_from_chain
WorkChainFirst ==
    /\ w_pc = "loop"
    /\ w_idx <= Len(pdb_hv)
    /\ prevchainseq = NoneSeq
    /\ prevchainseq' = getSequence(pdb_hv[w_idx])
    /\ parsed' = parsed \cup {w_idx}
    /\ chain' = pdb_hv[w_idx]
    /\ aq_pc' = "start"
    /\ res_id' = 0
    /\ prev' = 0
    /\ prev_res' = -1
    /\ dihedrals' = << >>
    /\ aq_result' = [kind |-> "pending", table |-> << >>, sequence |-> << >>]
    /\ w_pc' = "parsing"
    /\ UNCHANGED <<pdb_hv, single_chain_only, w_idx, pdb_dihedrals, pdb_sequences,
                   ids, w_result, nan_phi>>
    /\ UNCHANGED gvars

\* lines 256-258: a chain with the sequence of the first one is passed over
WorkChainIdentical ==
    /\ w_pc = "loop"
    /\ w_idx <= Len(pdb_hv)
    /\ prevchainseq # NoneSeq
    /\ getSequence(pdb_hv[w_idx]) = prevchainseq
    /\ w_idx' = w_idx + 1
    /\ UNCHANGED <<pdb_hv, single_chain_only, w_pc, prevchainseq, pdb_dihedrals,
                   pdb_sequences, ids, parsed, w_result>>
    /\ UNCHANGED <<gvars, avars>>

\* WorkChainDiffers that passes over the chain instead of returning
WorkChainDiffers_continue ==
    /\ w_pc = "loop"
    /\ w_idx <= Len(pdb_hv)
    /\ prevchainseq # NoneSeq
    /\ getSequence(pdb_hv[w_idx]) # prevchainseq
    /\ w_idx' = w_idx + 1
    /\ UNCHANGED <<pdb_hv, single_chain_only, w_pc, prevchainseq, pdb_dihedrals,
                   pdb_sequences, ids, parsed, w_result>>
    /\ UNCHANGED <<gvars, avars>>

\* lines 259-261: a chain with another sequence ends the call with None
WorkChainDiffers ==
    /\ w_pc = "loop"
    /\ w_idx <= Len(pdb_hv)
    /\ prevchainseq # NoneSeq
    /\ getSequence(pdb_hv[w_idx]) # prevchainseq
    /\ WorkReturnNone
    /\ UNCHANGED <<pdb_hv, single_chain_only, w_idx, prevchainseq, pdb_dihedrals,
                   pdb_sequences, ids, parsed>>
    /\ UNCHANGED <<gvars, avars>>

\* lines 263-269: get_angles_from_chain has returned
WorkParsed ==
    /\ w_pc = "parsing"
    /\ aq_pc = "returned"
    /\ IF aq_result.kind = "None"
       THEN UNCHANGED <<pdb_dihedrals, pdb_sequences, ids>>
       ELSE /\ pdb_dihedrals' = Append(pdb_dihedrals, aq_result.table)
            /\ pdb_sequences' = Append(pdb_sequences, aq_result.sequence)
            /\ ids' = Append(ids, w_idx)
    /\ w_idx' = w_idx + 1
    /\ w_pc' = "loop"
    /\ UNCHANGED <<pdb_hv, single_chain_only, prevchainseq, parsed, w_result>>
    /\ UNCHANGED <<gvars, avars>>

\* lines 271-273: an exception of get_angles_from_chain is raised again
WorkParseRaised ==
    /\ w_pc = "parsing"
    /\ aq_pc = "raised"
    /\ w_result' = [kind |-> "raise", dihedrals |-> << >>, sequences |-> << >>,
                    ids |-> << >>]
    /\ w_pc' = "raised"
    /\ UNCHANGED <<pdb_hv, single_chain_only, w_idx, prevchainseq, pdb_dihedrals,
                   pdb_sequences, ids, parsed>>
    /\ UNCHANGED <<gvars, avars>>

\* lines 274-277
WorkFinish ==
    /\ w_pc = "loop"
    /\ w_idx > Len(pdb_hv)
    /\ IF Len(pdb_dihedrals) = 0
       THEN WorkReturnNone
       ELSE /\ w_result' = [kind |-> "data", dihedrals |-> pdb_dihedrals,
                            sequences |-> pdb_sequences, ids |-> ids]
            /\ w_pc' = "returned"
    /\ UNCHANGED <<pdb_hv, single_chain_only, w_idx, prevchainseq, pdb_dihedrals,
                   pdb_sequences, ids, parsed>>
    /\ UNCHANGED <<gvars, avars>>

InitWork == WInit /\ GIdle /\ AIdle

NextWork ==
    \/ WorkSingleChainOnly
    \/ WorkStart
    \/ WorkChainFirst
    \/ WorkChainIdentical
    \/ WorkChainDiffers
    \/ WorkParsed
    \/ WorkParseRaised
    \/ WorkFinish
    \/ NextAq

SpecWork == InitWork /\ [][NextWork]_vars

----------------------------------------------------------------------------
(* Helpers of the properties. *)

IsPrefix(s, t) == Len(s) <= Len(t) /\ \A n \in 1..Len(s) : s[n] = t[n]

\* residue index the p-th entry of bb_arr \o sc_arr was emitted for
Owner(p) == IF p <= Len(bb_arr) THEN (p - 1) \div 3 ELSE sc_owner[p - Len(bb_arr)]

RECURSIVE AtomSum(_, _)
\* 3 backbone atoms plus the template's side-chain atoms, over residues 0..n-1
AtomSum(seq, n) ==
    IF n = 0 THEN 0
    ELSE AtomSum(seq, n - 1) + 3 + Len(SC_DATA[seq[n - 1]].predicted)

\* the steps of a complete run over n real residues
ExpectedTrace(n) ==
    [q \in 1..(IF n > 1 THEN 2 * n - 1 ELSE 1) |->
        IF q = 1 THEN <<"seed", 0>>
        ELSE IF q % 2 = 0 THEN <<"bb", q \div 2>>
        ELSE <<"sc", (q - 1) \div 2>>]

----------------------------------------------------------------------------
(* C1 *)

\* C1: the three placements of a residue are sequential: N is placed from the
\* last three atoms of the coordinate list, CA from (second-to-last, last, new
\* N), C from (last, new N, new CA), and no two of them share a context triple.
C1_SequentialContext ==
    \A q \in 1..Len(calls) :
        LET c == calls[q]
            n == 3 * c.res
        IN  /\ c.j = 0 => c.ctx = <<bb_arr[n - 2], bb_arr[n - 1], bb_arr[n]>>
            /\ c.j = 1 => /\ c.ctx = <<bb_arr[n - 1], bb_arr[n], calls[q - 1].pt>>
                          /\ c.ctx # calls[q - 1].ctx
            /\ c.j = 2 => /\ c.ctx = <<bb_arr[n], calls[q - 2].pt, calls[q - 1].pt>>
                          /\ c.ctx # calls[q - 1].ctx
                          /\ c.ctx # calls[q - 2].ctx

(* C2 *)

\* C2: in the returned sequence every atom of residue r comes before every atom
\* of residue s, for r < s.
C2_ResidueOrder ==
    pc = "DONE" =>
        \A p, q \in 1..Len(result) : p < q => Owner(p) <= Owner(q)

(* C3 *)

\* C3: the number of atoms returned is the sum over the real residues of 3 plus
\* the side-chain atom count of the residue's template.
C3_AtomCount ==
    (pc = "DONE" /\ pad_loc >= 1 /\ \A r \in 0..(pad_loc - 1) : input_seq[r] \in TemplateTypes)
        => Len(result) = AtomSum(input_seq, pad_loc)

(* C4 *)

\* C4: atom 1 is the origin, atom 2 is (1.442, 0, 0) and atom 3 is atom 2 plus
\* 1.498 (cos(pi - theta), sin(pi - theta), 0), at distance 1.498 from atom 2.
C4_SeedGeometry ==
    (pad_loc >= 1 /\ Len(bb_arr) >= 3) =>
        LET th == PiMinus(angles[0][3])
        IN  /\ bb_arr[1] = Zeros3
            /\ bb_arr[2] = <<Scaled(bondlens.n_ca), 0, 0>>
            /\ bb_arr[3] = VecAdd(bb_arr[2],
                                  <<Cos(th) * bondlens.ca_c, Sin(th) * bondlens.ca_c, 0>>)
            /\ Norm2(VecSub(bb_arr[3], bb_arr[2]))
                  = Scaled(bondlens.ca_c) * Scaled(bondlens.ca_c)

(* C5 *)

\* C5: for residue k >= 1 the three nerf calls get: N - length 1.379, angle
\* column 4 of row k, dihedral column 1 of row k-1; CA - length 1.442, angle
\* column 5 of row k, dihedral column 2 of row k-1; C - length 1.498, angle
\* column 3 of row k, dihedral column 0 of row k; only rows k and k-1 are read.
C5_NerfParameters ==
    \A q \in 1..Len(calls) :
        LET c == calls[q]
            k == c.res
        IN  /\ k = ((q - 1) \div 3) + 1
            /\ c.j = (q - 1) % 3
            /\ c.tAt[1] \in {k - 1, k} /\ c.dAt[1] \in {k - 1, k}
            /\ c.t = angles[c.tAt[1]][c.tAt[2]]
            /\ c.dihedral = angles[c.dAt[1]][c.dAt[2]]
            /\ c.j = 0 => c.b = 1379 /\ c.tAt = <<k, 4>> /\ c.dAt = <<k - 1, 1>>
            /\ c.j = 1 => c.b = 1442 /\ c.tAt = <<k, 5>> /\ c.dAt = <<k - 1, 2>>
            /\ c.j = 2 => c.b = 1498 /\ c.tAt = <<k, 3>> /\ c.dAt = <<k, 0>>

\* two residues have been extended
C5_Witness == Len(calls) >= 6 /\ calls[6].res = 2 /\ calls[6].j = 2

(* C6 *)

\* C6: the steps taken are always a prefix of seed, bb 1, sc 1, bb 2, sc 2, ...,
\* the backbone of residue i is extended only when residue i-1's backbone is in
\* the list, its side chain only after its own backbone, and the function is
\* done only after the steps of every residue 1..pad_loc-1.
C6_StateMachine ==
    /\ IsPrefix(trace, ExpectedTrace(pad_loc))
    /\ pc = "INITIAL" => trace = << >> /\ bb_arr = << >>
    /\ pc = "BACKBONE_SEEDED" => trace = << <<"seed", 0>> >> /\ Len(bb_arr) = 3
    /\ pc = "EXTEND_BB" =>
          /\ 1 <= i /\ i < pad_loc
          /\ Len(bb_arr) = 3 * i
          /\ Len(trace) = 2 * i - 1
    /\ pc = "EXTEND_SC" =>
          /\ 1 <= i /\ i < pad_loc
          /\ Len(bb_arr) = 3 * (i + 1)
          /\ trace[Len(trace)] = <<"bb", i>>
    /\ pc \in {"RETURN", "DONE"} => trace = ExpectedTrace(pad_loc)

\* a run over three residues is done
C6_Witness == pc = "DONE" /\ pad_loc >= 3 /\ Len(trace) >= 5

(* C7 *)

\* C7: every step leaves the backbone list and the side-chain list as prefixes
\* of their new values, and a backbone extension adds exactly 3 entries.
C7_AppendOnly ==
    [][/\ IsPrefix(bb_arr, bb_arr')
       /\ IsPrefix(sc_arr, sc_arr')
       /\ (pc = "EXTEND_BB" /\ pc' = "EXTEND_SC") => Len(bb_arr') = Len(bb_arr) + 3]_vars

\* both lists have grown past their seeds
C7_Witness == Len(bb_arr) >= 9 /\ Len(sc_arr) >= 3

(* C8 *)

\* C8: no angle row with index >= pad_loc is read, no residue with index >=
\* pad_loc is extended and no atom is emitted for such a residue.
C8_NoPaddedResidue ==
    /\ \A cell \in reads : cell[1] < pad_loc
    /\ \A q \in 1..Len(trace) : trace[q][2] < pad_loc
    /\ \A p \in 1..(Len(bb_arr) + Len(sc_arr)) : Owner(p) < pad_loc

(* C9 *)

\* number of side-chain dihedrals of a residue with the given atom names
NumDihedrals(names) == IF Len(names) >= 3 THEN Len(names) - 2 ELSE 0

C10_FailFast ==
    LET bad == {r \in 0..(pad_loc - 1) : input_seq[r] \notin TemplateTypes}
    IN  bad # {} =>
            /\ pc # "DONE"
            /\ \A q \in 1..Len(trace) : \A r \in bad : trace[q][2] <= r

(* C11 *)

\* some residue after the first does not carry its predecessor's number plus 1
Discontinuous(ch) == \E q \in 2..Len(ch) : ch[q].num # ch[q - 1].num + 1

AllLikeFirst ==
    \A q \in 2..Len(pdb_hv) : getSequence(pdb_hv[q]) = getSequence(pdb_hv[1])

\* C12: work hands only the first chain to get_angles_from_chain; it returns
\* data exactly when that chain is accepted and every later chain has its
\* sequence, and then the data of that one chain alone; a later chain with
\* another sequence, or a first chain that is refused, makes it return None.
C12_FirstChainOnly ==
    /\ parsed \subseteq {1}
    /\ Len(pdb_dihedrals) <= 1
    /\ w_pc = "returned" =>
          /\ w_result.kind \in {"None", "data"}
          /\ w_result.kind = "data" <=>
                /\ Len(pdb_hv) >= 1
                /\ ~(single_chain_only /\ Len(pdb_hv) > 1)
                /\ AllLikeFirst
                /\ parsed = {1} /\ aq_result.kind = "table"
          /\ w_result.kind = "data" =>
                /\ w_result.ids = <<1>>
                /\ w_result.sequences = <<getSequence(pdb_hv[1])>>
                /\ w_result.dihedrals = <<aq_result.table>>
                /\ chain = pdb_hv[1]
          /\ ~AllLikeFirst => w_result.kind = "None"
          /\ (parsed = {1} /\ aq_result.kind = "None") => w_result.kind = "None"

\* the first chain was accepted and its table collected, a later chain with
\* another sequence was met, and the call returned None
C12_Witness ==
    /\ w_pc = "returned"
    /\ w_result.kind = "None"
    /\ Len(pdb_dihedrals) = 1
    /\ Len(pdb_hv) >= 3
    /\ getSequence(pdb_hv[2]) = getSequence(pdb_hv[1])
    /\ getSequence(pdb_hv[3]) # getSequence(pdb_hv[1])

====
